---- MODULE Spec2Model ----
(***************************************************************************)
(* The reflective value converter of go-plist (type.go): valueToPlistValue *)
(* and structToPlistValue, with isEmptyValue and the text-marshaler        *)
(* adapter.  Go values are modelled as trees of reflect.Value records; the *)
(* conversion is a recursive operator that returns Go's pair (node, err),  *)
(* a panic flag, and the sequence of calls and returns it made.            *)
(***************************************************************************)
EXTENDS Integers, Sequences, FiniteSets, TLC

\* input: the reflect.Value handed to valueToPlistValue; mem: the bytes
\* behind the input's byte slices and byte arrays; mem0: mem as it was when
\* the conversion ran; bytesOnArray: whether reflect.Value.Bytes of the
\* build accepts an addressable byte array (Go 1.19 on) or panics;
\* pc: "ready" before the call, "done" after, "written" once the caller
\* has written to the source bytes; result: what the call gave.
VARIABLES input, mem, mem0, bytesOnArray, pc, result

vars == <<input, mem, mem0, bytesOnArray, pc, result>>

(* ------------------------------ bounds --------------------------------- *)
\* nesting depth of the generated input values (wrappers around a leaf)
MaxWrap == 2
\* length of the byte storage behind a byte slice or byte array
MaxLen == 2

(* ------------------------- plistKind (type.go) ------------------------- *)
Invalid == 0
Dictionary == 1
Array == 2
String == 3
Integer == 4
Real == 5
Boolean == 6
Data == 7

\* a nil *plistValue (of no plistKind) and a nil error
NilNode == [kind |-> -1]
NilErr == [e |-> "nil"]

plistValue(kind, value) == [kind |-> kind, value |-> value]

\* &UnknownTypeError{Type: typ}
UnknownTypeError(typ) == [e |-> "UnknownTypeError", Type |-> typ]

(* ----------------------------- Go types -------------------------------- *)
\* tm: how the type provides MarshalText: "none", "value" (value receiver,
\* or an interface type that includes the method) or "pointer" (pointer
\* receiver).
\* fields: a struct type's fields, each [name, omitEmpty] as its tag gives.
Ty(k) ==
  [k |-> k, name |-> "", tm |-> "none", elem |-> <<>>, key |-> <<>>,
   fields |-> <<>>]
Named(k, name, tm) == [Ty(k) EXCEPT !.name = name, !.tm = tm]
PtrTo(t) == [Ty("ptr") EXCEPT !.elem = <<t>>]
SliceOf(t) == [Ty("slice") EXCEPT !.elem = <<t>>]
ArrayOf(t) == [Ty("array") EXCEPT !.elem = <<t>>]
MapOf(kt, t) == [Ty("map") EXCEPT !.key = <<kt>>, !.elem = <<t>>]
IfaceTy == Ty("interface")

SignedKinds == {"int", "int8", "int16", "int32", "int64"}
UnsignedKinds == {"uint", "uint8", "uint16", "uint32", "uint64"}
FloatKinds == {"float32", "float64"}

\* bit width of an integer kind (int, uint and uintptr on a 64-bit build)
Width(k) ==
  CASE k \in {"int8", "uint8"} -> 8
    [] k \in {"int16", "uint16"} -> 16
    [] k \in {"int32", "uint32"} -> 32
    [] OTHER -> 64

\* typ.Implements(textMarshalerType): the method set of T holds the value
\* receiver methods; that of *T holds the methods of both receivers, unless
\* T is itself a pointer or an interface type.
Implements(typ) ==
  \/ typ.tm = "value"
  \/ /\ typ.k = "ptr"
     /\ typ.elem[1].k \notin {"ptr", "interface"}
     /\ typ.elem[1].tm \in {"value", "pointer"}

(* ------------------------- Go values (reflect.Value) ------------------- *)
\* bits: the stored integer, most significant 16-bit limb first, Width/16
\* limbs (one limb below 256 for an 8-bit kind); num: a float; str: a
\* string; b: a bool; kids: the field values, elements, map entries (in
\* the order MapKeys yields them) or the pointee; mt: what the value's
\* MarshalText returns.  The bytes of a non-nil byte slice or byte array
\* live in mem.
NoMT == [text |-> "", err |-> ""]
Zero(t) ==
  [typ |-> t, addr |-> FALSE, isnil |-> FALSE, bits |-> <<>>, str |-> "",
   num |-> 0, b |-> FALSE, kids |-> <<>>, mt |-> NoMT]
Kid(key, v) == [key |-> key, val |-> v]

\* the zero reflect.Value
InvalidValue == Zero(Ty("invalid"))

IsValid(val) == val.typ.k # "invalid"
Kind(val) == val.typ.k
CanAddr(val) == val.addr
\* no value of the model is reached through an unexported field
CanInterface(val) == TRUE

IsBytes(typ) == typ.k \in {"slice", "array"} /\ typ.elem[1].k = "uint8"

\* val.Len()
GoLen(val) ==
  IF val.isnil THEN 0
  ELSE IF IsBytes(val.typ) THEN Len(mem)
  \* a string's length only matters as zero or not
  ELSE IF val.typ.k = "string" THEN (IF val.str = "" THEN 0 ELSE 1)
  ELSE Len(val.kids)

\* val.IsNil()
IsNil(val) == val.isnil

\* val.Elem(): the pointee is addressable, an interface's payload is not;
\* a nil pointer or interface yields the zero Value
Elem(val) ==
  IF val.isnil THEN InvalidValue
  ELSE [val.kids[1].val EXCEPT !.addr = (val.typ.k = "ptr")]

\* val.Addr()
Addr(val) == [Zero(PtrTo(val.typ)) EXCEPT !.kids = <<Kid("", val)>>]

\* val.Index(idx): a slice element is addressable, an array element is
\* iff the array is
Index(val, idx) ==
  [val.kids[idx].val EXCEPT !.addr = (val.typ.k = "slice" \/ val.addr)]

\* val.MapIndex(keyv): never addressable
MapIndex(val, idx) == [val.kids[idx].val EXCEPT !.addr = FALSE]

(* -------------------- 64-bit integers as 16-bit limbs ------------------ *)
Base == 2^16
Zeros(n) == [i \in 1..n |-> 0]
Ones(n) == [i \in 1..n |-> Base - 1]

\* the sign bit of a stored integer of the given width
TopBit(bits, w) == IF w = 8 THEN bits[1] >= 128 ELSE bits[1] >= Base \div 2

\* val.Int(): the stored integer sign-extended to int64
ValInt(val) ==
  LET w == Width(val.typ.k)
      n == Len(val.bits)
  IN  IF TopBit(val.bits, w)
        THEN IF w = 8 THEN Ones(3) \o <<(Base - 256) + val.bits[1]>>
                      ELSE Ones(4 - n) \o val.bits
        ELSE Zeros(4 - n) \o val.bits

\* val.Uint(): the stored integer zero-extended to uint64
ValUint(val) == Zeros(4 - Len(val.bits)) \o val.bits

(* ------------------------ results and the call log --------------------- *)
\* Go's (node, err); panic: the call panicked instead of returning; log:
\* every valueToPlistValue call (with its recursion depth d) and every
\* return, in order.
Out(node, err, log) == [node |-> node, err |-> err, panic |-> FALSE, log |-> log]
Panic(log) == [node |-> NilNode, err |-> NilErr, panic |-> TRUE, log |-> log]
CallEv(val, d) == [e |-> "call", val |-> val, d |-> d]
RetEv(val, via, out) ==
  [e |-> "ret", val |-> val, via |-> via, node |-> out.node, err |-> out.err]
\* a return of valueToPlistValue, through the branch named via
Return(val, via, out) ==
  IF out.panic THEN out
  ELSE [out EXCEPT !.log = Append(@, RetEv(val, via, out))]

(* ------------------------------ type.go -------------------------------- *)
\* isEmptyValue with reflect.String missing from its first case
isEmptyValueNoString(v) ==
  CASE Kind(v) \in {"array", "map", "slice"} -> GoLen(v) = 0
    [] Kind(v) = "bool" -> ~v.b
    [] Kind(v) \in SignedKinds -> ValInt(v) = Zeros(4)
    [] Kind(v) \in UnsignedKinds \cup {"uintptr"} -> ValUint(v) = Zeros(4)
    [] Kind(v) \in FloatKinds -> v.num = 0
    [] Kind(v) \in {"interface", "ptr"} -> IsNil(v)
    [] OTHER -> FALSE

isEmptyValue(v) ==
  CASE Kind(v) \in {"array", "map", "slice", "string"} -> GoLen(v) = 0
    [] Kind(v) = "bool" -> ~v.b
    [] Kind(v) \in SignedKinds -> ValInt(v) = Zeros(4)
    [] Kind(v) \in UnsignedKinds \cup {"uintptr"} -> ValUint(v) = Zeros(4)
    [] Kind(v) \in FloatKinds -> v.num = 0
    [] Kind(v) \in {"interface", "ptr"} -> IsNil(v)
    [] OTHER -> FALSE

\* marshalable.MarshalText(): the method of the receiver's type.  Through
\* a non-nil pointer it is the pointee's; through a nil pointer a value
\* receiver method panics on the dereference and a pointer receiver method
\* runs with the nil receiver.
MarshalText(m) ==
  IF Kind(m) = "ptr" /\ m.typ.tm # "value"
    THEN IF m.isnil
           THEN IF m.typ.elem[1].tm = "value"
                  THEN [text |-> "", err |-> "", panic |-> TRUE]
                  ELSE [text |-> m.mt.text, err |-> m.mt.err, panic |-> FALSE]
           ELSE LET p == m.kids[1].val
                IN  [text |-> p.mt.text, err |-> p.mt.err, panic |-> FALSE]
    ELSE [text |-> m.mt.text, err |-> m.mt.err, panic |-> FALSE]

stringMarshalableToPlistValue(marshalable, log) ==
  LET r == MarshalText(marshalable)
  IN  IF r.panic THEN Panic(log)
      ELSE IF r.err # "" THEN Out(NilNode, [e |-> "MarshalText", msg |-> r.err], log)
      ELSE Out(plistValue(String, [go |-> "[]byte", s |-> r.text]), NilErr, log)

\* tinfo.fields of getTypeInfo(typ): a descriptor per field of the struct
\* type, in declaration order
getTypeInfo(typ) ==
  [fields |-> [i \in DOMAIN typ.fields |->
      [name |-> typ.fields[i].name, omitEmpty |-> typ.fields[i].omitEmpty,
       idx |-> i]]]

\* finfo.value(val): the field's current value, addressable iff the
\* struct is
fieldValue(finfo, val) == [val.kids[finfo.idx].val EXCEPT !.addr = val.addr]

\* dataBytes taking val.Bytes() whether or not the value is addressable
dataBytesAlwaysView(val) ==
  IF Kind(val) = "array" /\ ~bytesOnArray
    THEN [panic |-> TRUE, alias |-> FALSE, bytes |-> <<>>]
    ELSE IF val.isnil
           THEN [panic |-> FALSE, alias |-> FALSE, bytes |-> <<>>]
           ELSE [panic |-> FALSE, alias |-> TRUE, bytes |-> mem]

\* lines 125-133: the bytes of a Data node, [alias, bytes]: a view of the
\* source's storage (alias) or a copy of it
dataBytes(val) ==
  IF CanAddr(val)
    THEN \* val.Bytes()
         IF Kind(val) = "array" /\ ~bytesOnArray
           THEN [panic |-> TRUE, alias |-> FALSE, bytes |-> <<>>]
           ELSE IF val.isnil
                  THEN [panic |-> FALSE, alias |-> FALSE, bytes |-> <<>>]
                  ELSE [panic |-> FALSE, alias |-> TRUE, bytes |-> mem]
    ELSE \* make([]byte, val.Len()); reflect.Copy
         [panic |-> FALSE, alias |-> FALSE,
          bytes |-> IF val.isnil THEN <<>> ELSE mem]

RECURSIVE valueToPlistValue(_, _, _)
RECURSIVE structFields(_, _, _, _, _, _)
RECURSIVE sliceElems(_, _, _, _, _)
RECURSIVE mapEntries(_, _, _, _, _)

\* lines 68-82: the loop over tinfo.fields, from field i on
structFields(fields, val, i, subvalues, d, log) ==
  IF i > Len(fields)
    THEN Out(plistValue(Dictionary, subvalues), NilErr, log)
    ELSE LET finfo == fields[i]
             value == fieldValue(finfo, val)
         IN  IF ~IsValid(value) \/ (finfo.omitEmpty /\ isEmptyValue(value))
               THEN structFields(fields, val, i + 1, subvalues, d, log)
               ELSE LET r == valueToPlistValue(value, d + 1, log)
                    IN  IF r.panic THEN r
                        ELSE IF r.err # NilErr THEN Out(NilNode, r.err, r.log)
                        ELSE structFields(fields, val, i + 1,
                               (finfo.name :> r.node) @@ subvalues, d, r.log)

structToPlistValue(typ, val, d, log) ==
  LET tinfo == getTypeInfo(typ)
  IN  structFields(tinfo.fields, val, 1, <<>>, d, log)

\* sliceElems going on to the next element when one fails
sliceElemsKeepGoing(val, idx, subvalues, d, log) ==
  IF idx > GoLen(val)
    THEN Out(plistValue(Array, subvalues), NilErr, log)
    ELSE LET r == valueToPlistValue(Index(val, idx), d + 1, log)
         IN  IF r.panic THEN r
             ELSE IF r.err # NilErr
               THEN sliceElems(val, idx + 1, subvalues, d, r.log)
             ELSE sliceElems(val, idx + 1, Append(subvalues, r.node), d, r.log)

\* sliceElems putting each converted element in front of the earlier ones
sliceElemsPrepend(val, idx, subvalues, d, log) ==
  IF idx > GoLen(val)
    THEN Out(plistValue(Array, subvalues), NilErr, log)
    ELSE LET r == valueToPlistValue(Index(val, idx), d + 1, log)
         IN  IF r.panic THEN r
             ELSE IF r.err # NilErr THEN Out(NilNode, r.err, r.log)
             ELSE sliceElems(val, idx + 1, <<r.node>> \o subvalues, d, r.log)

\* lines 135-143: the loop over the elements, from idx on (1-based)
sliceElems(val, idx, subvalues, d, log) ==
  IF idx > GoLen(val)
    THEN Out(plistValue(Array, subvalues), NilErr, log)
    ELSE LET r == valueToPlistValue(Index(val, idx), d + 1, log)
         IN  IF r.panic THEN r
             ELSE IF r.err # NilErr THEN Out(NilNode, r.err, r.log)
             ELSE sliceElems(val, idx + 1, Append(subvalues, r.node), d, r.log)

\* lines 150-159: the loop over val.MapKeys(), from the i-th key on
mapEntries(val, i, subvalues, d, log) ==
  IF i > GoLen(val)
    THEN Out(plistValue(Dictionary, subvalues), NilErr, log)
    ELSE LET r == valueToPlistValue(MapIndex(val, i), d + 1, log)
         IN  IF r.panic THEN r
             ELSE IF r.err # NilErr THEN Out(NilNode, r.err, r.log)
             ELSE mapEntries(val, i + 1,
                    (val.kids[i].key :> r.node) @@ subvalues, d, r.log)

\* line 117: &plistValue{Integer, val.Int()}, an int64 payload
intNode(val) == plistValue(Integer, [go |-> "int64", bits |-> ValInt(val)])

\* uintNode converting the magnitude: int64(val.Uint())
uintNodeAsInt64(val) == plistValue(Integer, [go |-> "int64", bits |-> ValUint(val)])

\* line 119: &plistValue{Integer, val.Uint()}, a uint64 payload
uintNode(val) == plistValue(Integer, [go |-> "uint64", bits |-> ValUint(val)])

\* mapToPlistValue without the check of the key's kind
mapToPlistValueAnyKey(typ, val, d, log) == mapEntries(val, 1, <<>>, d, log)

\* lines 145-159: case reflect.Map
mapToPlistValue(typ, val, d, log) ==
  IF typ.key[1].k # "string"
    THEN Out(NilNode, UnknownTypeError(typ), log)
    ELSE mapEntries(val, 1, <<>>, d, log)

\* lines 113-163: the switch on typ.Kind()
kindSwitch(typ, val, d, log) ==
  CASE typ.k = "string" ->
         Out(plistValue(String, [go |-> "string", s |-> val.str]), NilErr, log)
    [] typ.k \in SignedKinds -> Out(intNode(val), NilErr, log)
    [] typ.k \in UnsignedKinds -> Out(uintNode(val), NilErr, log)
    [] typ.k \in FloatKinds ->
         Out(plistValue(Real, val.num), NilErr, log)
    [] typ.k = "bool" ->
         Out(plistValue(Boolean, val.b), NilErr, log)
    [] typ.k \in {"slice", "array"} ->
         IF typ.elem[1].k = "uint8"
           THEN LET bytes == dataBytes(val)
                IN  IF bytes.panic THEN Panic(log)
                    ELSE Out(plistValue(Data, [alias |-> bytes.alias,
                                               bytes |-> bytes.bytes]), NilErr, log)
           ELSE sliceElems(val, 1, <<>>, d, log)
    [] typ.k = "map" -> mapToPlistValue(typ, val, d, log)
    [] OTHER -> Out(NilNode, UnknownTypeError(typ), log)

\* lines 85-111, then the switch
valueToPlistValue(val, d, log) ==
  LET log0 == Append(log, CallEv(val, d))
  IN  \* line 86: val.Type() of the zero Value panics
      IF ~IsValid(val) THEN Panic(log0)
      ELSE
      LET typ == val.typ
      IN  IF ~IsValid(val) THEN Return(val, "absent", Out(NilNode, NilErr, log0))
          ELSE IF CanInterface(val) /\ Implements(typ)
            THEN Return(val, "text", stringMarshalableToPlistValue(val, log0))
          ELSE IF /\ CanAddr(val)
                  /\ CanInterface(Addr(val))
                  /\ Implements(Addr(val).typ)
            THEN Return(val, "text", stringMarshalableToPlistValue(Addr(val), log0))
          ELSE LET descend == typ.k \in {"ptr", "interface"}
                   val1 == IF descend THEN Elem(val) ELSE val
               IN  \* line 106: val.Type() of the zero Value panics
                   IF ~IsValid(val1) THEN Panic(log0)
                   ELSE LET typ1 == val1.typ
                        IN  IF typ1.k = "struct"
                              THEN Return(val, "struct",
                                     structToPlistValue(typ1, val1, d, log0))
                              ELSE Return(val, "dispatch",
                                     kindSwitch(typ1, val1, d, log0))

(* --------------------------- the input values -------------------------- *)
Field(name, omitEmpty, typ) == [name |-> name, omitEmpty |-> omitEmpty, typ |-> typ]
StructTy(name, tm, fields) == [Named("struct", name, tm) EXCEPT !.fields = fields]

IntVal(k, bits) == [Zero(Ty(k)) EXCEPT !.bits = bits]
StrVal(s) == [Zero(Ty("string")) EXCEPT !.str = s]
NilOf(t) == [Zero(t) EXCEPT !.isnil = TRUE]
\* a value of a type with MarshalText, and what the method returns for it
Marshaler(k, name, tm, text, err) ==
  [Zero(Named(k, name, tm)) EXCEPT !.mt = [text |-> text, err |-> err]]

Int7 == IntVal("int", <<0, 0, 0, 7>>)
Int0 == IntVal("int", <<0, 0, 0, 0>>)
FuncVal == Zero(Ty("func"))
TVal == Marshaler("struct", "TVal", "value", "v", "")
TPtr == Marshaler("struct", "TPtr", "pointer", "p", "")

TErr == Marshaler("struct", "TErr", "value", "", "boom")
NilPtr == NilOf(PtrTo(Ty("int")))

\* the leaves that are wrapped to any depth
CoreLeaves == {Int7, StrVal(""), FuncVal, TVal, TPtr, TErr, NilPtr}

Leaves ==
  CoreLeaves \cup
  { StrVal("hi"),
    IntVal("int8", <<255>>), Int0,
    IntVal("int64", <<Base \div 2, 0, 0, 0>>), IntVal("int32", <<Base - 1, Base - 2>>),
    IntVal("uint8", <<200>>), IntVal("uint", <<0, 0, 0, 0>>),
    IntVal("uint16", <<40000>>), IntVal("uint64", <<Base \div 2, 0, 0, 0>>),
    IntVal("uint64", <<Base - 1, Base - 1, Base - 1, Base - 1>>),
    IntVal("uintptr", <<0, 0, 0, 0>>),
    Zero(Ty("float64")), [Zero(Ty("float32")) EXCEPT !.num = 1],
    Zero(Ty("bool")), [Zero(Ty("bool")) EXCEPT !.b = TRUE],
    Zero(SliceOf(Ty("uint8"))), NilOf(SliceOf(Ty("uint8"))),
    Zero(ArrayOf(Ty("uint8"))),
    Zero(Ty("chan")), Zero(Ty("complex128")),
    Zero(MapOf(Ty("int"), Ty("int"))),
    Marshaler("string", "Name", "value", "n", ""),
    NilOf(PtrTo(TVal.typ)),
    [NilOf(PtrTo(TPtr.typ)) EXCEPT !.mt = [text |-> "nilp", err |-> ""]],
    NilOf(MapOf(Ty("string"), Ty("int"))), NilOf(SliceOf(Ty("int"))),
    NilOf(IfaceTy),
    Zero(StructTy("Plain", "none", <<>>)),
    \* a struct whose first accessor yields the zero Value
    [Zero(StructTy("S0", "none", <<Field("A", FALSE, Ty("int")),
                                   Field("B", FALSE, Ty("int"))>>))
       EXCEPT !.kids = <<Kid("", InvalidValue), Kid("", Int7)>>] }

Ptr(v) == [Zero(PtrTo(v.typ)) EXCEPT !.kids = <<Kid("", v)>>]
\* an interface{} holding v (an interface never holds an interface)
Iface(v) ==
  IF v.typ.k = "interface" THEN v
  ELSE [Zero(IfaceTy) EXCEPT !.kids = <<Kid("", v)>>]
SliceVal(t, elems) ==
  [Zero(SliceOf(t)) EXCEPT !.kids = [i \in DOMAIN elems |-> Kid("", elems[i])]]
ArrayVal(t, elems) ==
  [Zero(ArrayOf(t)) EXCEPT !.kids = [i \in DOMAIN elems |-> Kid("", elems[i])]]
MapVal(kt, t, entries) == [Zero(MapOf(kt, t)) EXCEPT !.kids = entries]
StructVal(name, fields, vals) ==
  [Zero(StructTy(name, "none", fields))
     EXCEPT !.kids = [i \in DOMAIN vals |-> Kid("", vals[i])]]

\* the values one level around v.  Element sequences of uint8 are byte
\* sequences, which hold their bytes in mem, so v is not put in a []uint8.
Wrap(v) ==
  {Ptr(v), Iface(v),
   SliceVal(IfaceTy, <<Iface(v), Iface(Int7)>>),
   SliceVal(IfaceTy, <<Iface(FuncVal), Iface(v)>>),
   MapVal(Ty("string"), v.typ, <<Kid("a", v)>>),
   MapVal(Ty("string"), IfaceTy, <<Kid("a", Iface(v)), Kid("b", Iface(FuncVal))>>),
   MapVal(Ty("string"), IfaceTy, <<Kid("b", Iface(FuncVal)), Kid("a", Iface(v))>>),
   MapVal(Ty("int"), v.typ, <<Kid("1", v)>>),
   StructVal("S1", <<Field("A", FALSE, v.typ)>>, <<v>>),
   StructVal("S2", <<Field("A", TRUE, v.typ), Field("B", FALSE, Ty("int"))>>,
             <<v, Int0>>)}
  \cup (IF v.typ.k = "uint8" THEN {}
        ELSE {SliceVal(v.typ, <<v, v>>), ArrayVal(v.typ, <<v>>)})

RECURSIVE Wrapped(_, _)
\* the leaves of a set wrapped exactly n times
Wrapped(leaves, n) ==
  IF n = 0 THEN leaves ELSE UNION {Wrap(v) : v \in Wrapped(leaves, n - 1)}

\* every leaf bare and wrapped once, the core leaves wrapped up to n times
Values(n) ==
  Leaves \cup Wrapped(Leaves, 1) \cup UNION {Wrapped(CoreLeaves, k) : k \in 2..n}

\* reflect.ValueOf never yields a Value of kind Interface; of nil it yields
\* the zero Value
Inputs == {v \in Values(MaxWrap) : v.typ.k # "interface"} \cup {InvalidValue}

RECURSIVE HasBytes(_, _)
\* whether a byte sequence of one of the kinds is held in v
HasBytes(v, kinds) ==
  \/ IsValid(v) /\ IsBytes(v.typ) /\ v.typ.k \in kinds /\ ~v.isnil
  \/ \E i \in DOMAIN v.kids : HasBytes(v.kids[i].val, kinds)

ByteVals == {0, 255}
ByteSeqs == UNION {[1..n -> ByteVals] : n \in 0..MaxLen}

RECURSIVE Depth(_)
\* the nesting depth of a value
Depth(v) ==
  IF v.kids = <<>> THEN 1
  ELSE 1 + (CHOOSE m \in {Depth(v.kids[i].val) : i \in DOMAIN v.kids} :
              \A i \in DOMAIN v.kids : Depth(v.kids[i].val) <= m)

(* --------------------------- the state machine ------------------------- *)
NoResult == Panic(<<>>)

Init ==
  /\ input \in Inputs
  /\ mem \in (IF HasBytes(input, {"slice", "array"}) THEN ByteSeqs ELSE {<<>>})
  /\ bytesOnArray \in (IF HasBytes(input, {"array"}) THEN BOOLEAN ELSE {TRUE})
  /\ mem0 = mem
  /\ pc = "ready"
  /\ result = NoResult

\* the caller converts the input
Convert ==
  /\ pc = "ready"
  /\ result' = valueToPlistValue(input, 1, <<>>)
  /\ mem0' = mem
  /\ pc' = "done"
  /\ UNCHANGED <<input, mem, bytesOnArray>>

\* the caller writes byte b at index i of the source bytes after the call
Write(i, b) ==
  /\ pc = "done"
  /\ mem[i] # b
  /\ mem' = [mem EXCEPT ![i] = b]
  /\ pc' = "written"
  /\ UNCHANGED <<input, mem0, bytesOnArray, result>>

Next ==
  \/ Convert
  \/ \E i \in DOMAIN mem, b \in ByteVals : Write(i, b)

Spec == Init /\ [][Next]_vars

(* ------------------------- what the claims speak of -------------------- *)
Done == pc \in {"done", "written"}
Rets == {result.log[i] : i \in {j \in DOMAIN result.log : result.log[j].e = "ret"}}

\* the type exposes the text-rendering capability, on the value itself or
\* on its address when the value is addressable
Exposes(v) ==
  /\ IsValid(v)
  /\ Implements(v.typ) \/ (v.addr /\ Implements(PtrTo(v.typ)))

\* what the capability of an exposing value produces
Rendered(v) == IF Implements(v.typ) THEN MarshalText(v) ELSE MarshalText(Addr(v))

IsWrapper(v) == IsValid(v) /\ v.typ.k \in {"ptr", "interface"} /\ ~v.isnil

\* the value a call is about: the payload of a populated pointer or
\* interface, else the value itself
Source(v) == IF IsWrapper(v) THEN Elem(v) ELSE v

RECURSIVE Strip(_)
\* v with every populated pointer and interface around it unwrapped in place
Strip(v) == IF IsWrapper(v) THEN Strip(Elem(v)) ELSE v

\* a returned call gave the adapter's result for the exposing value t
GaveText(e, t) ==
  LET r == Rendered(t)
  IN  \/ r.panic
      \/ /\ e.via = "text"
         /\ IF r.err = ""
              THEN e.err = NilErr /\ e.node.kind = String /\ e.node.value.s = r.text
              ELSE e.node = NilNode /\ e.err = [e |-> "MarshalText", msg |-> r.err]

\* C1: a value whose type exposes the text-rendering capability converts
\* to the adapter's result (a String node of its output) without entering
\* struct handling or the kind switch, wherever it is met: as the argument
\* of a call (top level, field, element, map value) or as the payload of
\* the pointer or interface a call is made on.
C1_TextPrecedence ==
  Done => \A e \in Rets :
            \A t \in {e.val} \cup (IF IsWrapper(e.val) THEN {Elem(e.val)} ELSE {}) :
              Exposes(t) => GaveText(e, t)

SameOutcome(a, b) == a.node = b.node /\ a.err = b.err /\ a.panic = b.panic

\* C2: a chain of n >= 1 populated pointers/interfaces around v converts
\* to the same outcome (same tree or same error) as v unwrapped in place,
\* for every v whose own conversion returns.
C2_UnwrapInPlace ==
  (pc = "done" /\ IsWrapper(input)) =>
     LET bare == valueToPlistValue(Strip(input), 1, <<>>)
     IN  ~bare.panic => SameOutcome(result, bare)

\* an invalid value, a nil pointer or an interface with no payload (one
\* that exposes no text-rendering capability)
Absent(v) ==
  \/ ~IsValid(v)
  \/ v.typ.k \in {"ptr", "interface"} /\ v.isnil /\ ~Exposes(v)

\* C3: converting an invalid value, a nil pointer or an empty interface
\* returns absent, (nil, nil), normally: at top level and when reached as a
\* field, element or map value.
C3_AbsentIsNilNil ==
  Done => \A i \in DOMAIN result.log :
            (result.log[i].e = "call" /\ Absent(result.log[i].val)) =>
               /\ i + 1 \in DOMAIN result.log
               /\ result.log[i + 1].e = "ret"
               /\ result.log[i + 1].val = result.log[i].val
               /\ result.log[i + 1].node = NilNode
               /\ result.log[i + 1].err = NilErr

\* C4: fail-fast, no partial result.  No call returns both a node and an
\* error; once a call has returned an error nothing more is converted,
\* every enclosing call returns a nil node with that same error, and so
\* does the top-level call.
C4_FailFast ==
  Done =>
    LET log == result.log
        failed == {i \in DOMAIN log : log[i].e = "ret" /\ log[i].err # NilErr}
    IN  /\ \A e \in Rets : e.node = NilNode \/ e.err = NilErr
        /\ result.node = NilNode \/ result.err = NilErr
        /\ (failed = {}) <=> (result.err = NilErr)
        /\ \A i \in failed :
             /\ ~result.panic
             /\ result.node = NilNode
             /\ result.err = log[i].err
             /\ \A j \in DOMAIN log :
                  j > i => log[j].e = "ret" /\ log[j].node = NilNode
                           /\ log[j].err = log[i].err

\* an element fails while a sibling is still to come: the sibling is never
\* converted and the error reaches the top
C4_Witness ==
  /\ Done
  /\ input.typ.k = "slice"
  /\ Len(input.kids) = 2
  /\ result.err = UnknownTypeError(FuncVal.typ)
  /\ result.node = NilNode
  /\ Cardinality({i \in DOMAIN result.log : result.log[i].e = "call"}) = 2

\* the claim's emptiness: zero-length sequence, mapping or text, boolean
\* false, numeric zero, nil pointer or interface; nothing else
EmptyByClaim(v) ==
  CASE v.typ.k \in {"slice", "array", "map"} ->
         v.isnil \/ (IF IsBytes(v.typ) THEN mem = <<>> ELSE v.kids = <<>>)
    [] v.typ.k = "string" -> v.str = ""
    [] v.typ.k = "bool" -> v.b = FALSE
    [] v.typ.k \in SignedKinds \cup UnsignedKinds \cup {"uintptr"} ->
         \A i \in DOMAIN v.bits : v.bits[i] = 0
    [] v.typ.k \in FloatKinds \cup {"complex128"} -> v.num = 0
    [] v.typ.k \in {"ptr", "interface"} -> v.isnil
    [] OTHER -> FALSE

\* the export names of the fields that are valid and not (omit-if-empty
\* and empty)
IncludedNames(sv) ==
  {sv.typ.fields[i].name : i \in
     {j \in DOMAIN sv.typ.fields :
        /\ IsValid(sv.kids[j].val)
        /\ ~(sv.typ.fields[j].omitEmpty /\ EmptyByClaim(sv.kids[j].val))}}

\* C5: whenever structToPlistValue returns a Dictionary, its keys are
\* exactly the export names of the fields whose value is valid and is not
\* (omit-if-empty and empty).
C5_FieldInclusion ==
  Done => \A e \in Rets :
            (e.via = "struct" /\ e.err = NilErr) =>
               /\ e.node.kind = Dictionary
               /\ DOMAIN e.node.value = IncludedNames(Source(e.val))

\* a flagged empty field is left out while an unflagged zero field is kept
C5_Witness ==
  /\ Done
  /\ input.typ.k = "struct"
  /\ Len(input.typ.fields) = 2
  /\ input.typ.fields[1].omitEmpty
  /\ input.kids[1].val = StrVal("")
  /\ input.kids[2].val = Int0
  /\ result.node.kind = Dictionary
  /\ DOMAIN result.node.value = {"B"}

RECURSIVE Inc(_)
\* a limb sequence plus one, modulo its width
Inc(l) ==
  IF l = <<>> THEN <<>>
  ELSE LET n == Len(l)
       IN  IF l[n] + 1 < Base THEN [l EXCEPT ![n] = l[n] + 1]
           ELSE Append(Inc(SubSeq(l, 1, n - 1)), 0)

\* the magnitude of a negative two's-complement limb sequence
Negated(l) == Inc([i \in DOMAIN l |-> (Base - 1) - l[i]])

\* the number a Go integer value holds: [neg, mag], the magnitude as four
\* limbs
NumberOf(v) ==
  LET w == Width(v.typ.k)
      n == Len(v.bits)
  IN  IF v.typ.k \in SignedKinds /\ TopBit(v.bits, w)
        THEN [neg |-> TRUE,
              mag |-> IF w = 8 THEN <<0, 0, 0, 256 - v.bits[1]>>
                      ELSE Zeros(4 - n) \o Negated(v.bits)]
        ELSE [neg |-> FALSE, mag |-> Zeros(4 - n) \o v.bits]

\* the number an Integer payload holds, read as its Go type says
NumberIn(payload) ==
  IF payload.go = "int64" /\ payload.bits[1] >= Base \div 2
    THEN [neg |-> TRUE, mag |-> Negated(payload.bits)]
    ELSE [neg |-> FALSE, mag |-> payload.bits]

IntegerKinds == SignedKinds \cup UnsignedKinds

PayloadBytes(node) == IF node.value.alias THEN mem ELSE node.value.bytes

\* the source bytes as they were when the conversion ran
SnapshotOf(src) == IF src.isnil THEN <<>> ELSE mem0

ByteSource(e) ==
  /\ ~Exposes(e.val)
  /\ IsBytes(Source(e.val).typ)

\* C7 as stated: the Data payload of every byte sequence, addressable or
\* not, equals the source bytes as they were at conversion time, also
\* after a later write to the source bytes.
C7_Snapshot ==
  Done => \A e \in Rets :
            ByteSource(e) =>
               /\ e.node.kind = Data
               /\ PayloadBytes(e.node) = SnapshotOf(Source(e.val))

\* C7 as amended: the Data payload equals the source bytes at conversion
\* time; for a source that is not addressable (or nil) it is a copy and
\* stays equal to that snapshot after a later write to the source; for an
\* addressable source it is a view of the source's storage and shows the
\* source's bytes as they are now.
C7_SnapshotUnlessView ==
  Done => \A e \in Rets :
            ByteSource(e) =>
               LET src == Source(e.val)
               IN  /\ e.err = NilErr
                   /\ e.node.kind = Data
                   /\ pc = "done" => PayloadBytes(e.node) = SnapshotOf(src)
                   /\ (~src.addr \/ src.isnil) =>
                         PayloadBytes(e.node) = SnapshotOf(src)
                   /\ (src.addr /\ ~src.isnil) => PayloadBytes(e.node) = mem

\* after a write to the source, the Data node of a source that is not
\* addressable still holds the bytes converted
C7_Witness ==
  /\ pc = "written"
  /\ mem # mem0
  /\ IsBytes(input.typ)
  /\ result.node.kind = Data
  /\ PayloadBytes(result.node) = mem0

\* a function, a channel, a complex number, a map keyed by a non-text type
UnsupportedByClaim(typ) ==
  \/ typ.k \in {"func", "chan", "complex128"}
  \/ typ.k = "map" /\ typ.key[1].k # "string"

\* C8: converting a function, channel, complex number or a map keyed by a
\* non-text type, even an empty one, returns a nil node and an
\* UnknownTypeError whose Type is the type of that value; nested in a
\* record, sequence or mapping, that error is what the top-level call
\* returns, with the nested type and not the container's.
C8_UnsupportedType ==
  Done =>
    LET log == result.log
        bad == {i \in DOMAIN log :
                  /\ log[i].e = "call"
                  /\ ~Exposes(log[i].val)
                  /\ IsValid(Source(log[i].val))
                  /\ UnsupportedByClaim(Source(log[i].val).typ)}
    IN  \A i \in bad :
          LET want == UnknownTypeError(Source(log[i].val).typ)
          IN  /\ i + 1 \in DOMAIN log
              /\ log[i + 1] = RetEv(log[i].val, "dispatch", Out(NilNode, want, <<>>))
              /\ ~result.panic
              /\ result.node = NilNode
              /\ result.err = want

\* an unsupported value nested in a container has been met and the
\* top-level error names its type
C8_Witness ==
  /\ Done
  /\ input.typ.k \in {"struct", "slice", "map"}
  /\ ~UnsupportedByClaim(input.typ)
  /\ result.err.e = "UnknownTypeError"
  /\ result.err.Type # input.typ
  /\ UnsupportedByClaim(result.err.Type)
  /\ result.err.Type.k = "map"

RECURSIVE WellFormed(_)
\* a present node of one of the seven kinds whose children are well formed
WellFormed(node) ==
  /\ node # NilNode
  /\ node.kind \in {Dictionary, Array, String, Integer, Real, Boolean, Data}
  /\ node.kind # Invalid
  /\ node.kind = Array => \A i \in DOMAIN node.value : WellFormed(node.value[i])
  /\ node.kind = Dictionary => \A k \in DOMAIN node.value : WellFormed(node.value[k])

\* C9: a tree returned by a successful call holds no Invalid node and no
\* absent child, recursively; an Array node has as many elements as the
\* source sequence, the i-th being what the i-th source element gave.
C9_WellFormed ==
  Done => \A e \in Rets :
            e.err = NilErr =>
              /\ e.node # NilNode => WellFormed(e.node)
              /\ (e.node # NilNode /\ e.node.kind = Array) =>
                   LET src == Source(e.val)
                   IN  /\ Len(e.node.value) = Len(src.kids)
                       /\ \A i \in DOMAIN src.kids :
                            \E c \in Rets : /\ c.val = Index(src, i)
                                            /\ c.err = NilErr
                                            /\ c.node = e.node.value[i]

\* an Array of two different elements has been returned
C9_Witness ==
  /\ Done
  /\ result.err = NilErr
  /\ result.node.kind = Array
  /\ Len(result.node.value) = 2
  /\ result.node.value[1] # result.node.value[2]
  /\ result.node.value[1].kind = Dictionary

Calls == {result.log[i] : i \in {j \in DOMAIN result.log : result.log[j].e = "call"}}

\* C10: the call on a finite acyclic value returns a node, absent or an
\* error; every recursive call is on a strict sub-component, so a call at
\* recursion depth d is on a value nested at least d - 1 levels below the
\* input and the depth never exceeds the input's.
C10_Returns ==
  Done => /\ ~result.panic
          /\ \A c \in Calls : c.d + Depth(c.val) <= Depth(input) + 1

====
